---------------------------- MODULE Spec2Model ----------------------------
(***************************************************************************)
(* Model of low_pressure_stimulation/Simultaion.py: the cell/face data     *)
(* transfer (cell_2_face, face_2_cell), update_aperture, the injection     *)
(* source InjectionDomain.source and the time loop that couples the flow,  *)
(* mechanics and friction solvers.                                         *)
(*                                                                         *)
(* The PorePy solvers, the mesher and the exporter are external: a solver  *)
(* call is an action that writes a field drawn from a small set of fields, *)
(* the exporter is the list of the calls it received.                      *)
(*                                                                         *)
(* Floating point values are modelled exactly: a field value is either a   *)
(* natural number (a solver output) or a fraction [n, d] in lowest terms   *)
(* (the result of a numpy division); 0/0 is NaN, as in numpy. Rounding is  *)
(* not modelled.                                                           *)
(***************************************************************************)
EXTENDS Integers, Sequences, FiniteSets, TLC

----------------------------------------------------------------------------
(* Bounds of the model *)

\* number of faces of the 3-D grid g3
NumFaces == 5
\* number of cells of every grid of the bucket
NumCells == 2
\* solver output fields take their values in 0..MaxVal
MaxVal == 1

----------------------------------------------------------------------------
(* Program constants *)

MINUTE == 60
SECOND == 1
\* dt = 10 * pp.MINUTE
dt == 10 * MINUTE
\* T = 18 * dt
T == 18 * dt
\* InjectionDomain.source: "t < 6000 * pp.SECOND + 1e-6"; the tolerance is
\* kept in microseconds, times of the run are whole seconds
SOURCE_CUTOFF == 6000
SOURCE_TOL_MICRO == 1
\* 10.0 * pp.KILOGRAM / pp.SECOND
INJECTION_RATE == 10
\* MatrixDomain.density
DENSITY == 1014
\* FractureDomain.E0 = .1 * pp.MILLI * pp.METER, as the fraction 1 / E0_INV
E0_INV == 10000

----------------------------------------------------------------------------
(* The grid bucket *)

\* node numbers: the 3-D grid is node 0, the fracture grids follow; node 1 is
\* the injection fracture (assign_data), node 2 stands for every other one
G3 == 0
Grids2 == {1, 2}
Grids == {G3} \cup Grids2
dim(g) == IF g = G3 THEN 3 ELSE 2
Faces == 1..NumFaces
Cells == 1..NumCells

----------------------------------------------------------------------------
(* Values *)

RECURSIVE GCD(_, _)
GCD(a, b) == IF b = 0 THEN a ELSE GCD(b, a % b)

NaN == [n |-> 0, d |-> 0]
Inf == [n |-> 1, d |-> 0]
\* numpy true division of two non-negative numbers
Div(a, b) ==
    IF b = 0 THEN (IF a = 0 THEN NaN ELSE Inf)
    ELSE LET g == GCD(a, b) IN [n |-> a \div g, d |-> b \div g]
Zero == Div(0, 1)
\* numpy addition of two fractions
Add(x, y) ==
    IF x = NaN \/ y = NaN THEN NaN
    ELSE IF x.d = 0 \/ y.d = 0 THEN Inf
    ELSE Div(x.n * y.d + y.n * x.d, x.d * y.d)

zeros(S) == [i \in S |-> 0]

----------------------------------------------------------------------------
(* Transfer data: cell_2_face and face_2_cell *)

\* An incidence map f_c = gb.edge_props((g3, g), 'face_cells') is the set of
\* its non-zero entries <<ci, fi>>: row ci is a cell of g, column fi a face
\* of g3.
RECURSIVE find(_)
\* sps.find(f_c): the entries, one after the other, in column-major order
find(f_c) ==
    IF f_c = {} THEN << >>
    ELSE LET e == CHOOSE e \in f_c : \A o \in f_c :
                      e[2] < o[2] \/ (e[2] = o[2] /\ e[1] <= o[1])
         IN  << e >> \o find(f_c \ {e})

RECURSIVE assign_faces(_, _, _)
\* face_variable[fi] = d[variable][ci]: one entry after the other
assign_faces(entries, cell_values, face_variable) ==
    IF entries = << >> THEN face_variable
    ELSE assign_faces(Tail(entries), cell_values,
             [face_variable EXCEPT ![Head(entries)[2]] = cell_values[Head(entries)[1]]])

RECURSIVE cell_2_face_loop(_, _, _, _)
\* "for g, d in gb" of cell_2_face, over the nodes that are left
cell_2_face_loop(nodes, fc, cell_field, face_variable) ==
    IF nodes = << >> THEN face_variable
    ELSE LET g == Head(nodes) IN
         IF dim(g) # 2
         THEN cell_2_face_loop(Tail(nodes), fc, cell_field, face_variable)
         ELSE cell_2_face_loop(Tail(nodes), fc, cell_field,
                  assign_faces(find(fc[g]), cell_field[g], face_variable))

\* the nodes of the bucket in the order "for g, d in gb" visits them
gb_nodes == << G3, 1, 2 >>

RECURSIVE cell_2_face_loop_fresh(_, _, _, _)
cell_2_face_loop_fresh(nodes, fc, cell_field, face_variable) ==
    IF nodes = << >> THEN face_variable
    ELSE LET g == Head(nodes) IN
         IF dim(g) # 2
         THEN cell_2_face_loop_fresh(Tail(nodes), fc, cell_field, face_variable)
         ELSE cell_2_face_loop_fresh(Tail(nodes), fc, cell_field,
                  assign_faces(find(fc[g]), cell_field[g], zeros(Faces)))

\* cell_2_face with a fault: face_variable = np.zeros(..) inside the loop
cell_2_face_fresh_per_grid(fc, cell_field) ==
    cell_2_face_loop_fresh(gb_nodes, fc, cell_field, zeros(Faces))

\* cell_2_face(gb, variable): the value assigned to data3['face_' + variable]
cell_2_face(fc, cell_field) ==
    cell_2_face_loop(gb_nodes, fc, cell_field, zeros(Faces))

RECURSIVE accumulate(_, _, _)
\* the loop "for i, face in enumerate(fi)": acc is [cell_variable, num_hit]
accumulate(entries, face_field, acc) ==
    IF entries = << >> THEN acc
    ELSE LET ci == Head(entries)[1]
             face == Head(entries)[2]
         IN  accumulate(Tail(entries), face_field,
                 [cell_variable |-> [acc.cell_variable EXCEPT ![ci] = @ + face_field[face]],
                  num_hit |-> [acc.num_hit EXCEPT ![ci] = @ + 1]])

RECURSIVE accumulate_overwrite(_, _, _)
accumulate_overwrite(entries, face_field, acc) ==
    IF entries = << >> THEN acc
    ELSE LET ci == Head(entries)[1]
             face == Head(entries)[2]
         IN  accumulate_overwrite(Tail(entries), face_field,
                 [cell_variable |-> [acc.cell_variable EXCEPT ![ci] = face_field[face]],
                  num_hit |-> [acc.num_hit EXCEPT ![ci] = @ + 1]])

\* face_2_cell_grid with a fault: "cell_variable[ci] = .." for "+="
face_2_cell_grid_overwrite(entries, face_field) ==
    LET acc == accumulate_overwrite(entries, face_field,
                   [cell_variable |-> zeros(Cells), num_hit |-> zeros(Cells)])
    IN  [c \in Cells |-> Div(acc.cell_variable[c], acc.num_hit[c])]

\* the body of face_2_cell for one 2-D grid, its entries visited in the
\* given order: the value assigned to d[variable]
face_2_cell_grid(entries, face_field) ==
    LET acc == accumulate(entries, face_field,
                   [cell_variable |-> zeros(Cells), num_hit |-> zeros(Cells)])
    IN  [c \in Cells |-> Div(acc.cell_variable[c], acc.num_hit[c])]

\* face_2_cell(gb, variable): the new d[variable] of every 2-D grid
face_2_cell(fc, face_field) ==
    [g \in Grids2 |-> face_2_cell_grid(find(fc[g]), face_field)]

----------------------------------------------------------------------------
(* Aperture update and injection source *)

\* FractureDomain.E0
E0 == [c \in Cells |-> Div(1, E0_INV)]

\* update_aperture with a fault: the change is added to the current aperture
update_aperture_accumulate(aper, change) ==
    [g \in Grids |-> IF dim(g) # 2 THEN aper[g]
                     ELSE [c \in Cells |-> Add(aper[g][c], change[g][c])]]

\* update_aperture(gb): the aperture of every grid after the call
update_aperture(aper, change) ==
    [g \in Grids |-> IF dim(g) # 2 THEN aper[g]
                     ELSE [c \in Cells |-> Add(E0[c], change[g][c])]]

\* np.argmin(distance): the first index of a smallest entry
argmin(distance) ==
    CHOOSE c \in DOMAIN distance :
        /\ \A o \in DOMAIN distance : distance[c] <= distance[o]
        /\ \A o \in DOMAIN distance : distance[o] = distance[c] => c <= o

\* injecting with a fault: the comparison without its tolerance
injecting_no_tolerance(time) == time < SOURCE_CUTOFF * SECOND

\* t < 6000 * pp.SECOND + 1e-6, for a time t in whole seconds
injecting(time) ==
    \/ time < SOURCE_CUTOFF * SECOND
    \/ (time = SOURCE_CUTOFF * SECOND /\ 0 < SOURCE_TOL_MICRO)

\* InjectionDomain.source(t)
source(time, distance) ==
    LET value == [c \in Cells |-> Zero]
        cell == argmin(distance)
    IN  IF injecting(time)
        THEN [value EXCEPT ![cell] = Div(INJECTION_RATE, DENSITY)]
        ELSE value

----------------------------------------------------------------------------
(* State *)

VARIABLES
    face_cells,       \* gb.edge_props((g3, g), 'face_cells') of every 2-D grid g
    distance,         \* InjectionDomain.source: distance of the cells of node 1
    pressure,         \* d['pressure'] of every 2-D grid
    face_pressure,    \* data3['face_pressure']
    data3_aperture_change, \* data3['aperture_change']
    aperture_change,  \* d['aperture_change'] of every 2-D grid
    aperture,         \* d['param'] aperture of every grid
    source_q,         \* the source term of node 1, as set by update(t)
    is_slipping,      \* friction_solver.is_slipping
    do_slip,          \* do_slip, as np.any(do_slip) reads it
    t, k, time_steps, \* the time stepping
    vtk_written,      \* the calls exporter.write_vtk received
    pvd_written,      \* the calls exporter.write_pvd received
    pc,               \* the statement of the script that runs next
    trace             \* history: the operations of the current outer time step

vars == << face_cells, distance, pressure, face_pressure, data3_aperture_change,
           aperture_change, aperture, source_q, is_slipping, do_slip, t, k,
           time_steps, vtk_written, pvd_written, pc, trace >>

\* a key that the dictionary does not hold yet
NoField == << >>
\* write_vtk called without a time_step
NoStep == -1

----------------------------------------------------------------------------
(* External collaborators *)

\* the cell fields a flow solve may return on the fracture grids
SolverCellFields ==
    { [g \in Grids2 |-> [c \in Cells |-> 0]] } \cup
    { [g \in Grids2 |-> [c \in Cells |-> (s + g + c) % (MaxVal + 1)]] :
          s \in 0..MaxVal }

\* the face fields the friction solver may hand out on g3
SolverFaceFields ==
    { [f \in Faces |-> 0] } \cup
    { [f \in Faces |-> (s + f) % (MaxVal + 1)] : s \in 0..MaxVal }

\* The incidence maps. A face of g3 lies on at most one fracture cell, and
\* the faces are numbered fracture by fracture, cell by cell, the faces that
\* lie on no fracture last: a layout gives the number of faces of every
\* fracture cell, the cells counted through the 2-D grids.
cell_index(g, c) == (g - 1) * NumCells + c
RECURSIVE faces_before(_, _)
faces_before(layout, i) ==
    IF i = 1 THEN 0 ELSE layout[i - 1] + faces_before(layout, i - 1)
face_cells_of(layout) ==
    [g \in Grids2 |->
        { e \in Cells \X Faces :
            LET i == cell_index(g, e[1]) IN
            /\ faces_before(layout, i) < e[2]
            /\ e[2] <= faces_before(layout, i) + layout[i] }]
NumFractureCells == Cardinality(Grids2) * NumCells
Layouts(least, most) ==
    { layout \in [1..NumFractureCells -> least..most] :
          faces_before(layout, NumFractureCells + 1) <= NumFaces }
\* what the mesher builds: every fracture cell lies on at least one face
MeshedGrids == { face_cells_of(layout) : layout \in Layouts(1, NumFaces) }
\* incidence maps handed to the mapping functions directly: a cell lies on
\* one face or on no face at all
AnyGrids == { face_cells_of(layout) : layout \in Layouts(0, 1) }

\* the sets of faces a friction step may report as slipping
SlipSets == { 1..j : j \in 0..NumFaces }

\* the distances of the cells of node 1 to the injection coordinate: one
\* nearest cell, or all cells equally near
Distances ==
    { [c \in Cells |-> IF c = m THEN 0 ELSE 1] : m \in Cells }
        \cup { [c \in Cells |-> 0] }

\* exporter.write_vtk(data, time_step)
write_vtk(data, time_step) ==
    Append(vtk_written, [data |-> data, time_step |-> time_step])

\* the history of the current outer step; a repeated (mechanics, friction)
\* round of the slip loop is recorded once
RoundOps == << "mech_solve", "friction_step" >>
log(op) ==
    LET n == Len(trace) IN
    IF op = "mech_solve" /\ n >= 2 /\ SubSeq(trace, n - 1, n) = RoundOps
        THEN SubSeq(trace, 1, n - 1)
    ELSE Append(trace, op)

occurs_in_trace(op) == \E i \in 1..Len(trace) : trace[i] = op

----------------------------------------------------------------------------
(* Initial state: the script up to the definition of the solvers *)

InitData ==
    /\ distance \in Distances
    /\ pressure = NoField
    /\ face_pressure = NoField
    /\ data3_aperture_change = zeros(Cells)
    /\ aperture_change = [g \in Grids2 |-> [c \in Cells |-> Zero]]
    /\ aperture = [g \in Grids |-> IF dim(g) = 2 THEN E0
                                   ELSE [c \in Cells |-> Div(1, 1)]]
    /\ source_q = NoField
    /\ is_slipping = [f \in Faces |-> FALSE]
    /\ do_slip = FALSE
    /\ t = 0
    /\ k = 0
    /\ time_steps = << >>
    /\ vtk_written = << [data |-> {}, time_step |-> NoStep] >>
    /\ pvd_written = << >>
    /\ pc = "save_initial"
    /\ trace = << >>

Init == face_cells \in MeshedGrids /\ InitData

InitAnyGrid == face_cells \in AnyGrids /\ InitData

----------------------------------------------------------------------------
(* The script: "save initial condition" and the time loop *)

grid == << face_cells, distance >>

\* flow_solver.pressure('pressure'); friction_solver.aperture_change(..)
SaveInitialFields ==
    /\ pc = "save_initial"
    /\ pressure' \in SolverCellFields
    /\ data3_aperture_change' \in SolverFaceFields
    /\ pc' = "initial_face_2_cell"
    /\ UNCHANGED << grid, face_pressure, aperture_change, aperture, source_q,
                    is_slipping, do_slip, t, k, time_steps, vtk_written,
                    pvd_written, trace >>

\* face_2_cell(gb, 'aperture_change') of the initial condition
InitialFace2Cell ==
    /\ pc = "initial_face_2_cell"
    /\ aperture_change' = face_2_cell(face_cells, data3_aperture_change)
    /\ pc' = "initial_write_vtk"
    /\ UNCHANGED << grid, pressure, face_pressure, data3_aperture_change,
                    aperture, source_q, is_slipping, do_slip, t, k, time_steps,
                    vtk_written, pvd_written, trace >>

\* exporter.write_vtk([..], 0); mech_solver.reassemble(); time_steps = [t]; k = 0
InitialWriteVtk ==
    /\ pc = "initial_write_vtk"
    /\ vtk_written' = write_vtk({"pressure", "aperture_change"}, 0)
    /\ time_steps' = << t >>
    /\ k' = 0
    /\ pc' = "while_t"
    /\ UNCHANGED << grid, pressure, face_pressure, data3_aperture_change,
                    aperture_change, aperture, source_q, is_slipping, do_slip,
                    t, pvd_written, trace >>

\* StepBegin with a fault: the new time is not appended to time_steps
StepBegin_no_append ==
    /\ pc = "while_t"
    /\ t < T
    /\ t' = t + dt
    /\ k' = k + 1
    /\ trace' = << >>
    /\ pc' = "update_source"
    /\ UNCHANGED << grid, pressure, face_pressure, data3_aperture_change,
                    aperture_change, aperture, source_q, is_slipping, do_slip,
                    time_steps, vtk_written, pvd_written >>

\* while t < T: t += dt; k += 1; time_steps.append(t)
StepBegin ==
    /\ pc = "while_t"
    /\ t < T
    /\ t' = t + dt
    /\ k' = k + 1
    /\ time_steps' = Append(time_steps, t')
    /\ trace' = << >>
    /\ pc' = "update_source"
    /\ UNCHANGED << grid, pressure, face_pressure, data3_aperture_change,
                    aperture_change, aperture, source_q, is_slipping, do_slip,
                    vtk_written, pvd_written >>

\* flow_solver._solver.update(t): the source of the injection fracture
UpdateSource ==
    /\ pc = "update_source"
    /\ source_q' = source(t, distance)
    /\ trace' = log("update_source")
    /\ pc' = "flow_solve"
    /\ UNCHANGED << grid, pressure, face_pressure, data3_aperture_change,
                    aperture_change, aperture, is_slipping, do_slip, t, k,
                    time_steps, vtk_written, pvd_written >>

\* flow_solver.reassemble(); flow_solver.step(); flow_solver.pressure('pressure')
FlowSolve ==
    /\ pc = "flow_solve"
    /\ pressure' \in SolverCellFields
    /\ trace' = log("flow_solve")
    /\ pc' = "cell_2_face"
    /\ UNCHANGED << grid, face_pressure, data3_aperture_change, aperture_change,
                    aperture, source_q, is_slipping, do_slip, t, k, time_steps,
                    vtk_written, pvd_written >>

\* cell_2_face(gb, 'pressure')
Cell2Face ==
    /\ pc = "cell_2_face"
    /\ face_pressure' = cell_2_face(face_cells, pressure)
    /\ trace' = log("cell_2_face")
    /\ pc' = "reset_slip"
    /\ UNCHANGED << grid, pressure, data3_aperture_change, aperture_change,
                    aperture, source_q, is_slipping, do_slip, t, k, time_steps,
                    vtk_written, pvd_written >>

\* do_slip = True; friction_solver.is_slipping = np.zeros(g3.num_faces, ..)
ResetSlip ==
    /\ pc = "reset_slip"
    /\ do_slip' = TRUE
    /\ is_slipping' = [f \in Faces |-> FALSE]
    /\ trace' = log("reset_slip")
    /\ pc' = "while_slip"
    /\ UNCHANGED << grid, pressure, face_pressure, data3_aperture_change,
                    aperture_change, aperture, source_q, t, k, time_steps,
                    vtk_written, pvd_written >>

\* MechSolve with a fault: the flow is solved again in every round of the loop
MechSolve_after_flow_solve ==
    /\ pc = "while_slip"
    /\ do_slip
    /\ pressure' \in SolverCellFields
    /\ trace' = Append(Append(trace, "flow_solve"), "mech_solve")
    /\ pc' = "friction_step"
    /\ UNCHANGED << grid, face_pressure, data3_aperture_change,
                    aperture_change, aperture, source_q, is_slipping, do_slip,
                    t, k, time_steps, vtk_written, pvd_written >>

\* MechSolve with a fault: the slip flags are reset inside the loop
MechSolve_resets_flags ==
    /\ pc = "while_slip"
    /\ do_slip
    /\ is_slipping' = [f \in Faces |-> FALSE]
    /\ trace' = log("mech_solve")
    /\ pc' = "friction_step"
    /\ UNCHANGED << grid, pressure, face_pressure, data3_aperture_change,
                    aperture_change, aperture, source_q, do_slip,
                    t, k, time_steps, vtk_written, pvd_written >>

\* while np.any(do_slip): mech_solver.solve(..); mech_solver.traction(..)
MechSolve ==
    /\ pc = "while_slip"
    /\ do_slip
    /\ trace' = log("mech_solve")
    /\ pc' = "friction_step"
    /\ UNCHANGED << grid, pressure, face_pressure, data3_aperture_change,
                    aperture_change, aperture, source_q, is_slipping, do_slip,
                    t, k, time_steps, vtk_written, pvd_written >>

\* do_slip = friction_solver.step(); set_slip_distance(..): the solver flags
\* the faces it finds slipping and reports whether there is any. The
\* traction and the slip distance are handed from one solver to the other
\* and never read by the script: they are not part of the state.
FrictionStep ==
    /\ pc = "friction_step"
    /\ \E new_slip \in SlipSets :
          /\ is_slipping' = [f \in Faces |-> is_slipping[f] \/ f \in new_slip]
          /\ do_slip' = (new_slip # {})
    /\ trace' = log("friction_step")
    /\ pc' = "while_slip"
    /\ UNCHANGED << grid, pressure, face_pressure, data3_aperture_change,
                    aperture_change, aperture, source_q, t, k, time_steps,
                    vtk_written, pvd_written >>

\* SaveApertureChange with a fault: the loop is left whatever do_slip is
SaveApertureChange_unguarded ==
    /\ pc = "while_slip"
    /\ occurs_in_trace("friction_step")
    /\ data3_aperture_change' \in SolverFaceFields
    /\ trace' = log("aperture_change")
    /\ pc' = "face_2_cell"
    /\ UNCHANGED << grid, pressure, face_pressure, aperture_change, aperture,
                    source_q, is_slipping, do_slip, t, k, time_steps,
                    vtk_written, pvd_written >>

\* the slip loop is left: friction_solver.aperture_change('aperture_change')
SaveApertureChange ==
    /\ pc = "while_slip"
    /\ ~do_slip
    /\ data3_aperture_change' \in SolverFaceFields
    /\ trace' = log("aperture_change")
    /\ pc' = "face_2_cell"
    /\ UNCHANGED << grid, pressure, face_pressure, aperture_change, aperture,
                    source_q, is_slipping, do_slip, t, k, time_steps,
                    vtk_written, pvd_written >>

\* face_2_cell(gb, 'aperture_change')
Face2Cell ==
    /\ pc = "face_2_cell"
    /\ aperture_change' = face_2_cell(face_cells, data3_aperture_change)
    /\ trace' = log("face_2_cell")
    /\ pc' = "update_aperture"
    /\ UNCHANGED << grid, pressure, face_pressure, data3_aperture_change,
                    aperture, source_q, is_slipping, do_slip, t, k, time_steps,
                    vtk_written, pvd_written >>

\* update_aperture(gb)
UpdateAperture ==
    /\ pc = "update_aperture"
    /\ aperture' = update_aperture(aperture, aperture_change)
    /\ trace' = log("update_aperture")
    /\ pc' = "write_vtk"
    /\ UNCHANGED << grid, pressure, face_pressure, data3_aperture_change,
                    aperture_change, source_q, is_slipping, do_slip, t, k,
                    time_steps, vtk_written, pvd_written >>

\* exporter.write_vtk(['pressure', 'aperture_change'], time_step=k)
WriteVtk ==
    /\ pc = "write_vtk"
    /\ vtk_written' = write_vtk({"pressure", "aperture_change"}, k)
    /\ trace' = log("write_vtk")
    /\ pc' = "while_t"
    /\ UNCHANGED << grid, pressure, face_pressure, data3_aperture_change,
                    aperture_change, aperture, source_q, is_slipping, do_slip,
                    t, k, time_steps, pvd_written >>

\* the time loop is left: exporter.write_pvd(np.array(time_steps))
WritePvd ==
    /\ pc = "while_t"
    /\ ~(t < T)
    /\ pvd_written' = Append(pvd_written, time_steps)
    /\ pc' = "done"
    /\ UNCHANGED << grid, pressure, face_pressure, data3_aperture_change,
                    aperture_change, aperture, source_q, is_slipping, do_slip,
                    t, k, time_steps, vtk_written, trace >>

Next ==
    \/ SaveInitialFields
    \/ InitialFace2Cell
    \/ InitialWriteVtk
    \/ StepBegin
    \/ UpdateSource
    \/ FlowSolve
    \/ Cell2Face
    \/ ResetSlip
    \/ MechSolve
    \/ FrictionStep
    \/ SaveApertureChange
    \/ Face2Cell
    \/ UpdateAperture
    \/ WriteVtk
    \/ WritePvd

\* the script as it is run
Spec == Init /\ [][Next]_vars

\* the script run on any incidence map, orphan cells included
SpecAnyGrid == InitAnyGrid /\ [][Next]_vars

\* the script keeps running until its last statement is done
FairSpec == Init /\ [][Next]_vars /\ WF_vars(Next)

----------------------------------------------------------------------------
(* Vocabulary of the properties *)

\* the faces of g3 that lie on cell c of the 2-D grid g
incident_faces(g, c) == { f \in Faces : << c, f >> \in face_cells[g] }
\* the faces of g3 that lie on no fracture cell
free_faces == { f \in Faces : \A g \in Grids2 : \A e \in face_cells[g] : e[2] # f }

RECURSIVE SumOver(_, _)
SumOver(S, field) ==
    IF S = {} THEN 0
    ELSE LET x == CHOOSE x \in S : TRUE IN field[x] + SumOver(S \ {x}, field)

RECURSIVE Orders(_)
\* every order in which the elements of S can be visited
Orders(S) ==
    IF S = {} THEN { << >> }
    ELSE UNION { { << e >> \o o : o \in Orders(S \ {e}) } : e \in S }

IsPrefix(s, r) == Len(s) <= Len(r) /\ s = SubSeq(r, 1, Len(s))

\* d['aperture_change'] is the result of face_2_cell on data3['aperture_change']
AfterFace2Cell == pc \in {"initial_write_vtk", "update_aperture"}

----------------------------------------------------------------------------
(* C1 *)

\* C1: after face_2_cell, the value of every fracture cell that has k >= 1
\* incident faces is the arithmetic mean of the k face values (value * k =
\* sum of the face values), and visiting the incidence entries in any other
\* order gives the same value.
C1_FaceToCellMean ==
    AfterFace2Cell =>
        /\ \A g \in Grids2 : \A c \in Cells :
            LET inc == incident_faces(g, c)
                kk == Cardinality(inc)
                v == aperture_change[g][c]
            IN  kk >= 1 =>
                  /\ v.d > 0
                  /\ v.n * kk = SumOver(inc, data3_aperture_change) * v.d
        /\ \A g \in Grids2 : \A order \in Orders(face_cells[g]) :
              LET mapped == face_2_cell_grid(order, data3_aperture_change)
              IN  \A c \in Cells :
                      incident_faces(g, c) # {} => mapped[c] = aperture_change[g][c]

\* a cell with several faces whose values differ got a mean that is none of
\* the face values
C1_Witness ==
    /\ pc = "update_aperture"
    /\ \E g \in Grids2 : \E c \in Cells :
          /\ Cardinality(incident_faces(g, c)) >= 2
          /\ aperture_change[g][c].d > 1

----------------------------------------------------------------------------
(* C2 *)

\* the value a field holds at index i: << >> when it holds none
value_at(field, i) == IF i \in DOMAIN field THEN << field[i] >> ELSE << >>

\* C2, as claimed: a call of cell_2_face gives every face incident to a
\* fracture cell the value of the cell and leaves the value of every face
\* that lies on no fracture cell as it was before the call.
C2_BroadcastLeavesOtherFaces ==
    [][ (pc = "cell_2_face" /\ pc' = "reset_slip") =>
          /\ \A g \in Grids2 : \A c \in Cells : \A f \in incident_faces(g, c) :
                face_pressure'[f] = pressure[g][c]
          /\ \A f \in free_faces :
                value_at(face_pressure', f) = value_at(face_pressure, f) ]_vars

\* C2, amended: after cell_2_face every face incident to a fracture cell
\* holds the value of the cell, and every face that lies on no fracture cell
\* holds 0.
C2_BroadcastZeroFill ==
    (face_pressure # NoField /\ pc # "cell_2_face") =>
        /\ DOMAIN face_pressure = Faces
        /\ \A g \in Grids2 : \A e \in face_cells[g] :
              face_pressure[e[2]] = pressure[g][e[1]]
        /\ \A f \in free_faces : face_pressure[f] = 0

\* two fractures with different pressures were mapped and a face lies on
\* no fracture
C2_Witness ==
    /\ pc = "reset_slip"
    /\ free_faces # {}
    /\ \E f1 \in incident_faces(1, 1) : \E f2 \in incident_faces(2, 1) :
          /\ face_pressure[f1] # 0
          /\ face_pressure[f1] # face_pressure[f2]

----------------------------------------------------------------------------
(* C3 *)

orphan_cell == \E g \in Grids2 : \E c \in Cells : incident_faces(g, c) = {}

\* C3: on a grid collection with a fracture cell that has no incident face,
\* face_2_cell ends in a MappingError: the script never gets past the call
\* and no cell value is written.
C3_OrphanCellRaises ==
    orphan_cell =>
        /\ pc \in {"save_initial", "initial_face_2_cell", "MappingError"}
        /\ aperture_change = [g \in Grids2 |-> [c \in Cells |-> Zero]]

\* the cell without a face got 0/0 and the script went on to write it
C3_Witness ==
    /\ orphan_cell
    /\ pc = "write_vtk"
    /\ \E g \in Grids2 : \E c \in Cells : aperture_change[g][c] = NaN

----------------------------------------------------------------------------
(* C4 *)

\* the snapshots: the calls of write_vtk that name a time step (the dump of
\* the bare grid names none)
snapshots == SelectSeq(vtk_written, LAMBDA w : w.time_step # NoStep)
time_axis_started == pc \notin {"save_initial", "initial_face_2_cell", "initial_write_vtk"}
\* the outer steps that are complete
steps_done == IF pc \in {"while_t", "done"} THEN k ELSE k - 1

\* C4: the recorded time axis starts at 0, is strictly increasing and has
\* one entry more than the number of outer steps begun; the snapshots carry
\* the step indices 0, 1, .. in this order, one per recorded time once the
\* step is complete; at the end there are N + 1 times and N + 1 snapshots
\* for the N steps taken and the manifest lists exactly these times.
C4_TimeAxisAndSnapshots ==
    time_axis_started =>
        LET snaps == snapshots IN
        /\ Len(time_steps) = k + 1
        /\ time_steps[1] = 0
        /\ \A i \in 1..k : time_steps[i] < time_steps[i + 1]
        /\ Len(snaps) = steps_done + 1
        /\ \A i \in 1..Len(snaps) :
              /\ snaps[i].time_step = i - 1
              /\ snaps[i].data = {"pressure", "aperture_change"}
        /\ pc # "done" => pvd_written = << >>
        /\ pc = "done" =>
              /\ pvd_written = << time_steps >>
              /\ Len(snaps) = Len(time_steps)
              /\ ~(time_steps[k + 1] < T)
              /\ k >= 1 => time_steps[k] < T

\* the run is over after 18 steps
C4_Witness == pc = "done" /\ k = 18 /\ Len(pvd_written[1]) = 19

----------------------------------------------------------------------------
(* C5 *)

aperture_updated == k >= 1 /\ pc \in {"write_vtk", "while_t", "done"}

\* C5: once update_aperture of an outer step has run, the aperture a of
\* every cell of every 2-D grid is E0 + aperture_change, with E0 = 1/E0_INV
\* and the aperture_change this step's face_2_cell produced (as fractions:
\* a.n / a.d = (ch.d + ch.n * E0_INV) / (E0_INV * ch.d)); the aperture of
\* the 3-D grid is always the one it had at the start.
C5_ApertureIsBaselinePlusChange ==
    /\ aperture[G3] = [c \in Cells |-> Div(1, 1)]
    /\ aperture_updated =>
          \A g \in Grids2 : \A c \in Cells :
              LET a == aperture[g][c]
                  ch == aperture_change[g][c]
              IN  /\ a.d > 0
                  /\ ch.d > 0
                  /\ a.n * (E0_INV * ch.d) = (ch.d + ch.n * E0_INV) * a.d

\* a later step, with a change that differs from the one of the step before
C5_Witness ==
    /\ pc = "write_vtk"
    /\ k >= 2
    /\ \E g \in Grids2 : \E c \in Cells :
          /\ aperture_change[g][c].n > 0
          /\ aperture_change[g][c].d > 1

----------------------------------------------------------------------------
(* C6 *)

\* source_q is the source of the current time t
source_is_current == source_q # NoField /\ pc # "update_source"
source_cells == { c \in Cells : source_q[c] # Zero }
nearest_cells == { c \in Cells : \A o \in Cells : distance[c] <= distance[o] }

\* C6, as claimed: the source is non-zero at exactly one cell, a nearest one,
\* while t < 6000 s, and zero at every cell for every other t.
C6_SourceStopsAtCutoff ==
    source_is_current =>
        IF t < 6000
        THEN Cardinality(source_cells) = 1 /\ source_cells \subseteq nearest_cells
        ELSE source_cells = {}

\* C6, amended: the source is non-zero at exactly one cell, a nearest one,
\* while t < 6000 s + 1e-6 s (for a time in whole seconds: t <= 6000), and
\* zero at every cell for every other t.
C6_SourceStopsAfterTolerance ==
    source_is_current =>
        IF t <= 6000
        THEN Cardinality(source_cells) = 1 /\ source_cells \subseteq nearest_cells
        ELSE source_cells = {}

\* the source of the step at t = 6000 s is evaluated and injects
C6_Witness == pc = "flow_solve" /\ t = 6000 /\ source_cells # {}

----------------------------------------------------------------------------
(* C7 *)

\* the operations the claim orders, in the order it gives; the (mechanics
\* solve, friction evaluation) round stands for one or more rounds
PhaseOrder ==
    << "update_source", "flow_solve", "cell_2_face", "mech_solve",
       "friction_step", "face_2_cell", "update_aperture", "write_vtk" >>
phases_done ==
    SelectSeq(trace, LAMBDA op : \E i \in 1..Len(PhaseOrder) : PhaseOrder[i] = op)
occurs(op) == occurs_in_trace(op)

\* C7: at any moment the operations done so far in the current outer step
\* are a beginning of: source update, flow solve, cell-to-face mapping,
\* (mechanics solve, friction evaluation) rounds, face-to-cell mapping,
\* aperture update, snapshot; a step that is over did them all. So the
\* aperture update comes after the slip loop of its step has converged and
\* before the next flow solve, which a new step only can do.
C7_PhaseOrder ==
    /\ IsPrefix(phases_done, PhaseOrder)
    /\ (pc = "while_t" /\ k >= 1) => phases_done = PhaseOrder
    /\ (pc = "write_vtk") => (~do_slip /\ occurs("update_aperture"))
    /\ (pc = "flow_solve") => phases_done = << "update_source" >>

\* a step is over whose slip loop took more than one round
C7_Witness ==
    /\ pc = "while_t"
    /\ k >= 2
    /\ \E f \in Faces : is_slipping[f]

----------------------------------------------------------------------------
(* C8 *)

\* the operations of an outer step up to the first round of the slip loop
StepHead ==
    << "update_source", "flow_solve", "cell_2_face", "reset_slip", "mech_solve" >>
resets_done == Len(SelectSeq(trace, LAMBDA op : op = "reset_slip"))

\* C8: in every outer step the slip flags are reset once, after the flow
\* solve and the cell-to-face mapping and before the first mechanics solve
\* (the step begins with: source, flow solve, mapping, reset, mechanics
\* solve), all flags are FALSE after the reset, and between a friction
\* evaluation and the next one of the same step the flags do not change.
C8_SlipFlagsResetOncePerStep ==
    /\ [](/\ resets_done <= 1
          /\ IsPrefix(trace, StepHead) \/ IsPrefix(StepHead, trace)
          /\ (pc = "while_slip" /\ ~occurs("mech_solve")) =>
                \A f \in Faces : ~is_slipping[f])
    /\ [][ (pc = "while_slip" /\ occurs("friction_step") /\ pc' = "friction_step")
             => is_slipping' = is_slipping ]_vars

\* a friction evaluation is about to run with flags of the one before set
C8_Witness ==
    /\ pc = "friction_step"
    /\ \E f \in Faces : is_slipping[f]
    /\ \E f \in Faces : ~is_slipping[f]

----------------------------------------------------------------------------
(* C9 *)

friction_evaluated == pc = "while_slip" /\ occurs("friction_step")

\* C9: every outer step does at least one mechanics solve followed by a
\* friction evaluation; after a friction evaluation the script solves the
\* mechanics again when the evaluation reported a slipping face and goes on
\* to the aperture mapping when it reported none; the aperture mapping and
\* update are never reached while the last evaluation reported a slipping
\* face.
C9_SlipLoopExit ==
    /\ [](/\ (pc = "while_slip" /\ ~occurs("friction_step")) => do_slip
          /\ pc \in {"face_2_cell", "update_aperture", "write_vtk"} =>
                /\ ~do_slip
                /\ occurs("mech_solve")
                /\ occurs("friction_step"))
    /\ [][ friction_evaluated =>
             /\ do_slip => (pc' = "friction_step" /\ trace'[Len(trace')] = "mech_solve")
             /\ ~do_slip => pc' = "face_2_cell" ]_vars

\* the slip loop was left after a round that reported slip and one that did not
C9_Witness ==
    /\ pc = "face_2_cell"
    /\ \E f \in Faces : is_slipping[f]

----------------------------------------------------------------------------
(* C10 *)

\* C10: the slip loop is bounded: an outer step that has entered the slip
\* loop reaches its aperture update, or the run ends in the error
\* SlipNonTermination.
C10_SlipLoopBounded ==
    (pc = "while_slip") ~> (pc = "update_aperture" \/ pc = "SlipNonTermination")
=============================================================================
